---- MODULE Spec2Model ----
(***************************************************************************)
(* Error catalogue (loader/xml_exceptions.py) and error report             *)
(* (reporting/errors.py) of edx-xml-clean.                                 *)
(*                                                                         *)
(* A Python str is modelled as a sequence of one-character strings, so     *)
(* that f-string interpolation is concatenation and strip() and slicing    *)
(* are computed character by character.  None is a value that is no str.   *)
(***************************************************************************)
EXTENDS Integers, Sequences, FiniteSets, TLC

VARIABLES
    errors,    \* errorstore.errors: the list of CourseError objects
    raised,    \* the constructor calls the walker has made, in order
    out,       \* the lines printed by the most recent report_errors call
    lastOps,   \* the most recent operations (at most two), oldest first
    args,      \* catalogue run: the arguments of the constructor call
    result,    \* catalogue run: what the constructor call produced
    pc         \* catalogue run: "call" before the call, "done" after it

vars == <<errors, raised, out, lastOps, args, result, pc>>

----------------------------------------------------------------------------
(* Bounds of the model *)

\* Longest store the walker builds.
MaxErrors == 2

\* Longest body of an offending text (before padding with whitespace).
MaxTextLen == 32

----------------------------------------------------------------------------
(* Python values *)

None == <<"None">>

\* Characters str.strip() removes (the ASCII part of str.isspace).
Whitespace == {" ", "\t", "\n", "\r"}

\* Truth value of `if v:` for a str or None.
Truthy(v) == v # None /\ v # <<>>

\* What an f-string field {v} renders: the str itself, or "None".
str(v) == IF v = None THEN <<"N","o","n","e">> (* "None" *) ELSE v

RECURSIVE lstrip(_)
lstrip(s) ==
    IF s # <<>> /\ Head(s) \in Whitespace THEN lstrip(Tail(s)) ELSE s

RECURSIVE rstrip(_)
rstrip(s) ==
    IF s # <<>> /\ s[Len(s)] \in Whitespace
    THEN rstrip(SubSeq(s, 1, Len(s) - 1))
    ELSE s

\* s.strip()
strip(s) == rstrip(lstrip(s))

\* The slice bound of text[:10].
SliceLen == 10

\* s[:n]
Slice(s, n) == SubSeq(s, 1, IF Len(s) < n THEN Len(s) ELSE n)

----------------------------------------------------------------------------
(* ErrorLevel and the CourseError base class (edx_xml_clean/exceptions.py) *)

ERROR == <<"E","R","R","O","R">> (* "ERROR" *)
WARNING == <<"W","A","R","N","I","N","G">> (* "WARNING" *)

\* A constructed error object: its class and what __init__ stored.
CourseError(kind, filename, description) ==
    [exc |-> "none",
     error |-> [kind |-> kind, filename |-> filename,
                description |-> description]]

\* kwargs['k'] on a dict without the key k.
KeyError == [exc |-> "KeyError"]

\* None.strip()
AttributeError == [exc |-> "AttributeError"]

\* Whether every key the constructor subscripts is in kwargs.
HasKeys(kwargs, keys) == keys \subseteq DOMAIN kwargs

----------------------------------------------------------------------------
(* The error classes: __init__(self, filename, **kwargs) of each *)

CourseXMLDoesNotExist(filename, kwargs) ==
    CourseError("CourseXMLDoesNotExist", filename,
        <<"T","h","e"," ","f","i","l","e"," ","'">> (* "The file '" *) \o str(filename) \o <<"'"," ","d","o","e","s"," ","n","o","t"," ","e","x","i","s","t",".">> (* "' does not exist." *))

InvalidXML(filename, kwargs) ==
    IF ~HasKeys(kwargs, {"error"}) THEN KeyError
    ELSE CourseError("InvalidXML", filename, kwargs["error"])

InvalidHTML(filename, kwargs) ==
    IF ~HasKeys(kwargs, {"error"}) THEN KeyError
    ELSE CourseError("InvalidHTML", filename, kwargs["error"])

CourseXMLName(filename, kwargs) ==
    CourseError("CourseXMLName", filename,
        <<"T","h","e"," ","c","o","u","r","s","e"," ","f","i","l","e",","," ">> (* "The course file, " *) \o str(filename) \o <<","," ","i","s"," ","n","o","t"," ","n","a","m","e","d"," ","c","o","u","r","s","e",".","x","m","l">> (* ", is not named course.xml" *))

TagMismatch(filename, kwargs) ==
    IF ~HasKeys(kwargs, {"tag1", "tag2"}) THEN KeyError
    ELSE CourseError("TagMismatch", filename,
        <<"A"," ","f","i","l","e"," ","i","s"," ","o","f"," ","t","y","p","e"," ","<">> (* "A file is of type <" *) \o str(kwargs["tag1"]) \o <<">"," ","b","u","t"," ">> (* "> but " *)
        \o <<"o","p","e","n","s"," ","w","i","t","h"," ","a"," ","<">> (* "opens with a <" *) \o str(kwargs["tag2"]) \o <<">"," ","t","a","g">> (* "> tag" *))

\* EmptyTag testing `kwargs['url_name'] is not None` instead of its truth.
EmptyTag_IsNotNone(filename, kwargs) ==
    IF ~HasKeys(kwargs, {"url_name", "tag"}) THEN KeyError
    ELSE IF kwargs["url_name"] # None
    THEN CourseError("EmptyTag", filename,
        <<"T","h","e"," ","<">> (* "The <" *) \o str(kwargs["tag"]) \o <<">"," ","t","a","g"," ","w","i","t","h"," ","u","r","l","_","n","a","m","e"," ","'">> (* "> tag with url_name '" *)
        \o str(kwargs["url_name"]) \o <<"'"," ">> \o <<"i","s"," ","u","n","e","x","p","e","c","t","e","d","l","y"," ","e","m","p","t","y">> (* "is unexpectedly empty" *))
    ELSE CourseError("EmptyTag", filename,
        <<"A"," ","<">> (* "A <" *) \o str(kwargs["tag"])
        \o <<">"," ","t","a","g"," ","w","i","t","h"," ","n","o"," ","u","r","l","_","n","a","m","e"," ","i","s"," ","u","n","e","x","p","e","c","t","e","d","l","y"," ","e","m","p","t","y">> (* "> tag with no url_name is unexpectedly empty" *))

EmptyTag(filename, kwargs) ==
    IF ~HasKeys(kwargs, {"url_name", "tag"}) THEN KeyError
    ELSE IF Truthy(kwargs["url_name"])
    THEN CourseError("EmptyTag", filename,
        <<"T","h","e"," ","<">> (* "The <" *) \o str(kwargs["tag"]) \o <<">"," ","t","a","g"," ","w","i","t","h"," ","u","r","l","_","n","a","m","e"," ","'">> (* "> tag with url_name '" *)
        \o str(kwargs["url_name"]) \o <<"'"," ">> \o <<"i","s"," ","u","n","e","x","p","e","c","t","e","d","l","y"," ","e","m","p","t","y">> (* "is unexpectedly empty" *))
    ELSE CourseError("EmptyTag", filename,
        <<"A"," ","<">> (* "A <" *) \o str(kwargs["tag"])
        \o <<">"," ","t","a","g"," ","w","i","t","h"," ","n","o"," ","u","r","l","_","n","a","m","e"," ","i","s"," ","u","n","e","x","p","e","c","t","e","d","l","y"," ","e","m","p","t","y">> (* "> tag with no url_name is unexpectedly empty" *))

ExtraURLName(filename, kwargs) ==
    IF ~HasKeys(kwargs, {"tag"}) THEN KeyError
    ELSE CourseError("ExtraURLName", filename,
        <<"T","h","e"," ","o","p","e","n","i","n","g"," ","<">> (* "The opening <" *) \o str(kwargs["tag"])
        \o <<">"," ","t","a","g"," ","s","h","o","u","l","d","n","'","t"," ","h","a","v","e"," ","a"," ","u","r","l","_","n","a","m","e"," ","a","t","t","r","i","b","u","t","e">> (* "> tag shouldn't have a url_name attribute" *))

InvalidPointer(filename, kwargs) ==
    IF ~HasKeys(kwargs, {"tag", "url_name"}) THEN KeyError
    ELSE CourseError("InvalidPointer", filename,
        <<"T","h","e"," ","<">> (* "The <" *) \o str(kwargs["tag"]) \o <<">"," ","t","a","g"," ","w","i","t","h"," ","u","r","l","_","n","a","m","e"," ","'">> (* "> tag with url_name '" *)
        \o str(kwargs["url_name"]) \o <<"'"," ">>
        \o <<"l","o","o","k","s"," ","l","i","k","e"," ","i","t"," ","i","s"," ","a","n"," ","i","n","v","a","l","i","d"," ","p","o","i","n","t","e","r"," ","t","a","g">> (* "looks like it is an invalid pointer tag" *))

FileDoesNotExist(filename, kwargs) ==
    IF ~HasKeys(kwargs, {"tag", "url_name", "new_file"}) THEN KeyError
    ELSE CourseError("FileDoesNotExist", filename,
        <<"T","h","e"," ","<">> (* "The <" *) \o str(kwargs["tag"]) \o <<">"," ","t","a","g"," ","w","i","t","h"," ","u","r","l","_","n","a","m","e"," ">> (* "> tag with url_name " *)
        \o str(kwargs["url_name"]) \o <<" ","p","o","i","n","t","s"," ","t","o"," ">> (* " points to " *)
        \o <<"t","h","e"," ","f","i","l","e"," ">> (* "the file " *) \o str(kwargs["new_file"]) \o <<" ","t","h","a","t"," ","d","o","e","s"," ","n","o","t"," ","e","x","i","s","t">> (* " that does not exist" *))

\* SelfPointer also subscripting kwargs['new_file'], as FileDoesNotExist does.
SelfPointer_NewFile(filename, kwargs) ==
    IF ~HasKeys(kwargs, {"tag", "url_name", "new_file"}) THEN KeyError
    ELSE CourseError("SelfPointer", filename,
        <<"T","h","e"," ","t","a","g"," ","<">> (* "The tag <" *) \o str(kwargs["tag"]) \o <<">"," ","w","i","t","h"," ","u","r","l","_","n","a","m","e"," ">> (* "> with url_name " *)
        \o str(kwargs["url_name"]) \o <<" ">>
        \o <<"a","p","p","e","a","r","s"," ","t","o"," ","b","e"," ","p","o","i","n","t","i","n","g"," ","t","o"," ","i","t","s","e","l","f">> (* "appears to be pointing to itself" *))

SelfPointer(filename, kwargs) ==
    IF ~HasKeys(kwargs, {"tag", "url_name"}) THEN KeyError
    ELSE CourseError("SelfPointer", filename,
        <<"T","h","e"," ","t","a","g"," ","<">> (* "The tag <" *) \o str(kwargs["tag"]) \o <<">"," ","w","i","t","h"," ","u","r","l","_","n","a","m","e"," ">> (* "> with url_name " *)
        \o str(kwargs["url_name"]) \o <<" ">>
        \o <<"a","p","p","e","a","r","s"," ","t","o"," ","b","e"," ","p","o","i","n","t","i","n","g"," ","t","o"," ","i","t","s","e","l","f">> (* "appears to be pointing to itself" *))

UnexpectedTag(filename, kwargs) ==
    IF ~HasKeys(kwargs, {"url_name", "tag", "parent"}) THEN KeyError
    ELSE IF Truthy(kwargs["url_name"])
    THEN CourseError("UnexpectedTag", filename,
        <<"A"," ","<">> (* "A <" *) \o str(kwargs["tag"])
        \o <<">"," ","t","a","g"," ","w","a","s"," ","u","n","e","x","p","e","c","t","e","d","l","y"," ","f","o","u","n","d"," ","i","n","s","i","d","e"," ","t","h","e"," ","<">> (* "> tag was unexpectedly found inside the <" *)
        \o str(kwargs["parent"]) \o <<">"," ","t","a","g"," ","w","i","t","h"," ">> (* "> tag with " *)
        \o <<"u","r","l","_","n","a","m","e"," ">> (* "url_name " *) \o str(kwargs["url_name"]))
    ELSE CourseError("UnexpectedTag", filename,
        <<"A"," ","<">> (* "A <" *) \o str(kwargs["tag"])
        \o <<">"," ","t","a","g"," ","w","a","s"," ","u","n","e","x","p","e","c","t","e","d","l","y"," ","f","o","u","n","d"," ","i","n","s","i","d","e"," ","a"," ","<">> (* "> tag was unexpectedly found inside a <" *)
        \o str(kwargs["parent"]) \o <<">"," ","t","a","g"," ","w","i","t","h"," ">> (* "> tag with " *) \o <<"n","o"," ","u","r","l","_","n","a","m","e">> (* "no url_name" *))

PossiblePointer(filename, kwargs) ==
    IF ~HasKeys(kwargs, {"tag", "url_name", "new_file"}) THEN KeyError
    ELSE CourseError("PossiblePointer", filename,
        <<"T","h","e"," ","<">> (* "The <" *) \o str(kwargs["tag"]) \o <<">"," ","t","a","g"," ","w","i","t","h"," ","u","r","l","_","n","a","m","e"," ","'">> (* "> tag with url_name '" *)
        \o str(kwargs["url_name"]) \o <<"'"," ">>
        \o <<"i","s"," ","n","o","t"," ","a"," ","p","o","i","n","t","e","r",","," ","b","u","t"," ","a"," ","f","i","l","e"," ","t","h","a","t"," ","i","t"," ","c","o","u","l","d"," ","p","o","i","n","t"," ","t","o"," ","e","x","i","s","t","s"," ","(">> (* "is not a pointer, but a file that it could point to exists (" *)
        \o str(kwargs["new_file"]) \o <<")">>)

\* The excerpt sliced before it is stripped: kwargs['text'][:10].strip().
Excerpt_SliceThenStrip(text) == strip(Slice(text, SliceLen))

\* kwargs['text'].strip()[:10], the excerpt of the offending text.
Excerpt(text) == Slice(strip(text), SliceLen)

UnexpectedContent(filename, kwargs) ==
    IF ~HasKeys(kwargs, {"url_name", "tag", "text"}) THEN KeyError
    ELSE IF kwargs["text"] = None THEN AttributeError
    ELSE CourseError("UnexpectedContent", filename,
        (IF Truthy(kwargs["url_name"])
         THEN <<"T","h","e"," ","<">> (* "The <" *) \o str(kwargs["tag"]) \o <<">"," ","t","a","g"," ","w","i","t","h"," ","u","r","l","_","n","a","m","e"," ","'">> (* "> tag with url_name '" *)
              \o str(kwargs["url_name"]) \o <<"'">>
         ELSE <<"A"," ","<">> (* "A <" *) \o str(kwargs["tag"]) \o <<">"," ","t","a","g"," ","w","i","t","h"," ","n","o"," ","u","r","l","_","n","a","m","e">> (* "> tag with no url_name" *))
        \o <<" ","s","h","o","u","l","d"," ","n","o","t"," ","c","o","n","t","a","i","n"," ","a","n","y"," ","t","e","x","t"," ","(">> (* " should not contain any text (" *) \o Excerpt(kwargs["text"])
        \o <<".",".",".",")">> (* "...)" *))

NonFlatURLName(filename, kwargs) ==
    IF ~HasKeys(kwargs, {"tag", "url_name"}) THEN KeyError
    ELSE CourseError("NonFlatURLName", filename,
        <<"T","h","e"," ","<">> (* "The <" *) \o str(kwargs["tag"]) \o <<">"," ","t","a","g"," ","w","i","t","h"," ","u","r","l","_","n","a","m","e"," ">> (* "> tag with url_name " *)
        \o str(kwargs["url_name"]) \o <<" ">>
        \o <<"u","s","e","s"," ","o","b","s","o","l","e","t","e"," ","c","o","l","o","n"," ","n","o","t","a","t","i","o","n"," ","i","n"," ","t","h","e"," ","u","r","l","_","n","a","m","e"," ","t","o"," ","p","o","i","n","t"," ","t","o"," ","a"," ","s","u","b","d","i","r","e","c","t","o","r","y">> (* "uses obsolete colon notation in the url_name to point to a subdirectory" *))

\* NonFlatFilename reading kwargs.get('url_name') instead of subscripting.
NonFlatFilename_Get(filename, kwargs) ==
    IF "url_name" \in DOMAIN kwargs /\ Truthy(kwargs["url_name"])
    THEN CourseError("NonFlatFilename", filename,
        <<"T","h","e"," ","<","h","t","m","l",">"," ","t","a","g"," ","w","i","t","h"," ","u","r","l","_","n","a","m","e"," ">> (* "The <html> tag with url_name " *) \o str(kwargs["url_name"]) \o <<" ">>
        \o <<"u","s","e","s"," ","o","b","s","o","l","e","t","e"," ","c","o","l","o","n"," ","n","o","t","a","t","i","o","n"," ","t","o"," ","p","o","i","n","t"," ","t","o"," ","a"," ","s","u","b","d","i","r","e","c","t","o","r","y"," ","f","o","r"," ","f","i","l","e","n","a","m","e"," ">> (* "uses obsolete colon notation to point to a subdirectory for filename " *)
        \o str(filename))
    ELSE CourseError("NonFlatFilename", filename,
        <<"A","n"," ","<","h","t","m","l",">"," ","t","a","g"," ","w","i","t","h"," ","n","o"," ","u","r","l","_","n","a","m","e"," ">> (* "An <html> tag with no url_name " *)
        \o <<"u","s","e","s"," ","o","b","s","o","l","e","t","e"," ","c","o","l","o","n"," ","n","o","t","a","t","i","o","n"," ","t","o"," ","p","o","i","n","t"," ","t","o"," ","a"," ","s","u","b","d","i","r","e","c","t","o","r","y"," ","f","o","r"," ","f","i","l","e","n","a","m","e"," ">> (* "uses obsolete colon notation to point to a subdirectory for filename " *)
        \o str(filename))

NonFlatFilename(filename, kwargs) ==
    IF ~HasKeys(kwargs, {"url_name"}) THEN KeyError
    ELSE IF Truthy(kwargs["url_name"])
    THEN CourseError("NonFlatFilename", filename,
        <<"T","h","e"," ","<","h","t","m","l",">"," ","t","a","g"," ","w","i","t","h"," ","u","r","l","_","n","a","m","e"," ">> (* "The <html> tag with url_name " *) \o str(kwargs["url_name"]) \o <<" ">>
        \o <<"u","s","e","s"," ","o","b","s","o","l","e","t","e"," ","c","o","l","o","n"," ","n","o","t","a","t","i","o","n"," ","t","o"," ","p","o","i","n","t"," ","t","o"," ","a"," ","s","u","b","d","i","r","e","c","t","o","r","y"," ","f","o","r"," ","f","i","l","e","n","a","m","e"," ">> (* "uses obsolete colon notation to point to a subdirectory for filename " *)
        \o str(filename))
    ELSE CourseError("NonFlatFilename", filename,
        <<"A","n"," ","<","h","t","m","l",">"," ","t","a","g"," ","w","i","t","h"," ","n","o"," ","u","r","l","_","n","a","m","e"," ">> (* "An <html> tag with no url_name " *)
        \o <<"u","s","e","s"," ","o","b","s","o","l","e","t","e"," ","c","o","l","o","n"," ","n","o","t","a","t","i","o","n"," ","t","o"," ","p","o","i","n","t"," ","t","o"," ","a"," ","s","u","b","d","i","r","e","c","t","o","r","y"," ","f","o","r"," ","f","i","l","e","n","a","m","e"," ">> (* "uses obsolete colon notation to point to a subdirectory for filename " *)
        \o str(filename))

\* The 15 error classes of the module.
Kinds ==
    {"CourseXMLDoesNotExist", "InvalidXML", "InvalidHTML", "CourseXMLName",
     "TagMismatch", "EmptyTag", "ExtraURLName", "InvalidPointer",
     "FileDoesNotExist", "SelfPointer", "UnexpectedTag", "PossiblePointer",
     "UnexpectedContent", "NonFlatURLName", "NonFlatFilename"}

\* kind(filename, **kwargs): the constructor call of the class named kind.
Construct(kind, filename, kwargs) ==
    CASE kind = "CourseXMLDoesNotExist" -> CourseXMLDoesNotExist(filename, kwargs)
      [] kind = "InvalidXML" -> InvalidXML(filename, kwargs)
      [] kind = "InvalidHTML" -> InvalidHTML(filename, kwargs)
      [] kind = "CourseXMLName" -> CourseXMLName(filename, kwargs)
      [] kind = "TagMismatch" -> TagMismatch(filename, kwargs)
      [] kind = "EmptyTag" -> EmptyTag(filename, kwargs)
      [] kind = "ExtraURLName" -> ExtraURLName(filename, kwargs)
      [] kind = "InvalidPointer" -> InvalidPointer(filename, kwargs)
      [] kind = "FileDoesNotExist" -> FileDoesNotExist(filename, kwargs)
      [] kind = "SelfPointer" -> SelfPointer(filename, kwargs)
      [] kind = "UnexpectedTag" -> UnexpectedTag(filename, kwargs)
      [] kind = "PossiblePointer" -> PossiblePointer(filename, kwargs)
      [] kind = "UnexpectedContent" -> UnexpectedContent(filename, kwargs)
      [] kind = "NonFlatURLName" -> NonFlatURLName(filename, kwargs)
      [] kind = "NonFlatFilename" -> NonFlatFilename(filename, kwargs)

\* _level with EmptyTag declared an ERROR.
_level_EmptyTagError(kind) ==
    IF kind \in {"CourseXMLName", "PossiblePointer",
                 "NonFlatURLName", "NonFlatFilename"}
    THEN WARNING
    ELSE ERROR

\* The class attribute _level of each class.
_level(kind) ==
    IF kind \in {"CourseXMLName", "EmptyTag", "PossiblePointer",
                 "NonFlatURLName", "NonFlatFilename"}
    THEN WARNING
    ELSE ERROR

\* The kwargs each class documents under "Expects kwargs".
Expects(kind) ==
    CASE kind \in {"CourseXMLDoesNotExist", "CourseXMLName"} -> {}
      [] kind \in {"InvalidXML", "InvalidHTML"} -> {"error"}
      [] kind = "TagMismatch" -> {"tag1", "tag2"}
      [] kind = "ExtraURLName" -> {"tag"}
      [] kind \in {"EmptyTag", "InvalidPointer", "SelfPointer", "NonFlatURLName"}
           -> {"tag", "url_name"}
      [] kind \in {"FileDoesNotExist", "PossiblePointer"}
           -> {"tag", "url_name", "new_file"}
      [] kind = "UnexpectedTag" -> {"tag", "parent", "url_name"}
      [] kind = "UnexpectedContent" -> {"tag", "url_name", "text"}
      [] kind = "NonFlatFilename" -> {"url_name"}

\* type(self).__name__ as a str.
KindName(kind) ==
    CASE kind = "CourseXMLDoesNotExist" -> <<"C","o","u","r","s","e","X","M","L","D","o","e","s","N","o","t","E","x","i","s","t">> (* "CourseXMLDoesNotExist" *)
      [] kind = "InvalidXML" -> <<"I","n","v","a","l","i","d","X","M","L">> (* "InvalidXML" *)
      [] kind = "InvalidHTML" -> <<"I","n","v","a","l","i","d","H","T","M","L">> (* "InvalidHTML" *)
      [] kind = "CourseXMLName" -> <<"C","o","u","r","s","e","X","M","L","N","a","m","e">> (* "CourseXMLName" *)
      [] kind = "TagMismatch" -> <<"T","a","g","M","i","s","m","a","t","c","h">> (* "TagMismatch" *)
      [] kind = "EmptyTag" -> <<"E","m","p","t","y","T","a","g">> (* "EmptyTag" *)
      [] kind = "ExtraURLName" -> <<"E","x","t","r","a","U","R","L","N","a","m","e">> (* "ExtraURLName" *)
      [] kind = "InvalidPointer" -> <<"I","n","v","a","l","i","d","P","o","i","n","t","e","r">> (* "InvalidPointer" *)
      [] kind = "FileDoesNotExist" -> <<"F","i","l","e","D","o","e","s","N","o","t","E","x","i","s","t">> (* "FileDoesNotExist" *)
      [] kind = "SelfPointer" -> <<"S","e","l","f","P","o","i","n","t","e","r">> (* "SelfPointer" *)
      [] kind = "UnexpectedTag" -> <<"U","n","e","x","p","e","c","t","e","d","T","a","g">> (* "UnexpectedTag" *)
      [] kind = "PossiblePointer" -> <<"P","o","s","s","i","b","l","e","P","o","i","n","t","e","r">> (* "PossiblePointer" *)
      [] kind = "UnexpectedContent" -> <<"U","n","e","x","p","e","c","t","e","d","C","o","n","t","e","n","t">> (* "UnexpectedContent" *)
      [] kind = "NonFlatURLName" -> <<"N","o","n","F","l","a","t","U","R","L","N","a","m","e">> (* "NonFlatURLName" *)
      [] kind = "NonFlatFilename" -> <<"N","o","n","F","l","a","t","F","i","l","e","n","a","m","e">> (* "NonFlatFilename" *)

\* The properties of an error object that report_errors reads.
level(error) == _level(error.kind)

filename_of(error) == error.filename

description(error) == error.description

name(error) == KindName(error.kind)

\* add_error that keeps the store free of repeats.
add_error_Unique(store, error) ==
    IF \E i \in 1..Len(store) : store[i] = error
    THEN store
    ELSE Append(store, error)

\* ErrorStore.add_error: the store is a list, a new error goes at its end.
add_error(store, error) == Append(store, error)

----------------------------------------------------------------------------
(* reporting/errors.py *)

\* The line print() writes for one error.
Line(error) ==
    str(level(error)) \o <<" ","(">> \o str(filename_of(error)) \o <<")",":"," ">> (* "): " *)
    \o str(description(error)) \o <<" ","(">> \o str(name(error)) \o <<")">>

\* The report printing an error only the first time it occurs in the store.
Lines_SkipRepeats(store) ==
    IF store # <<>>
    THEN SelectSeq([i \in 1..Len(store) |->
                      IF \E j \in 1..(i - 1) : store[j] = store[i]
                      THEN <<>>
                      ELSE Line(store[i])],
                   LAMBDA l : l # <<>>)
    ELSE << <<"N","o"," ","e","r","r","o","r","s"," ","f","o","u","n","d","!">> (* "No errors found!" *) >>

\* The report without its else branch: nothing is printed for an empty store.
Lines_NoElse(store) == [i \in 1..Len(store) |-> Line(store[i])]

\* Everything report_errors(errorstore) prints, line by line.
Lines(store) ==
    IF store # <<>>
    THEN [i \in 1..Len(store) |-> Line(store[i])]
    ELSE << <<"N","o"," ","e","r","r","o","r","s"," ","f","o","u","n","d","!">> (* "No errors found!" *) >>

----------------------------------------------------------------------------
(* Inputs *)

Filenames == { <<"c","o","u","r","s","e",".","x","m","l">> (* "course.xml" *), <<"c","h","1",".","x","m","l">> (* "ch1.xml" *) }

SampleText == <<"T","h","i","s"," ","i","s"," ","a"," ","l","o","n","g"," ","p","a","r","a","g","r","a","p","h"," ","o","f"," ","t","e","x","t">> (* "This is a long paragraph of text" *)

Pads == { <<>>, <<" ">>, <<"\n", "\t">> }

\* Offending texts: a prefix of the sample, padded with whitespace.
Texts ==
    { l \o Slice(SampleText, n) \o r :
        l \in Pads, r \in Pads, n \in 0..MaxTextLen }

\* The values the catalogue run passes for each keyword argument.
FieldValues(k) ==
    CASE k = "error" -> { <<>>, <<"O","p","e","n","i","n","g"," ","a","n","d"," ","e","n","d","i","n","g"," ","t","a","g"," ","m","i","s","m","a","t","c","h">> (* "Opening and ending tag mismatch" *) }
      [] k = "tag" -> { <<"c","h","a","p","t","e","r">> (* "chapter" *) }
      [] k = "tag1" -> { <<"c","h","a","p","t","e","r">> (* "chapter" *) }
      [] k = "tag2" -> { <<"s","e","q","u","e","n","t","i","a","l">> (* "sequential" *) }
      [] k = "parent" -> { <<"c","o","u","r","s","e">> (* "course" *) }
      [] k = "url_name" -> { None, <<>>, <<"i","n","t","r","o">> (* "intro" *) }
      [] k = "new_file" -> { <<"c","h","a","p","t","e","r","/","i","n","t","r","o",".","x","m","l">> (* "chapter/intro.xml" *) }
      [] k = "text" -> Texts \cup {None}

\* The values the walker passes for each keyword argument.
WalkerValues(k) ==
    CASE k = "error" -> { <<"O","p","e","n","i","n","g"," ","a","n","d"," ","e","n","d","i","n","g"," ","t","a","g"," ","m","i","s","m","a","t","c","h">> (* "Opening and ending tag mismatch" *) }
      [] k = "tag" -> { <<"c","h","a","p","t","e","r">> (* "chapter" *) }
      [] k = "tag1" -> { <<"c","h","a","p","t","e","r">> (* "chapter" *) }
      [] k = "tag2" -> { <<"s","e","q","u","e","n","t","i","a","l">> (* "sequential" *) }
      [] k = "parent" -> { <<"c","o","u","r","s","e">> (* "course" *) }
      [] k = "url_name" -> { <<>>, <<"i","n","t","r","o">> (* "intro" *) }
      [] k = "new_file" -> { <<"c","h","a","p","t","e","r","/","i","n","t","r","o",".","x","m","l">> (* "chapter/intro.xml" *) }
      [] k = "text" -> { SampleText }

\* Every dict with the keys of `keys`, each value drawn from its set.
RECURSIVE Dicts(_, _)
Dicts(keys, walker) ==
    IF keys = {} THEN { <<>> }
    ELSE LET k == CHOOSE x \in keys : TRUE
             vs == IF walker THEN WalkerValues(k) ELSE FieldValues(k)
         IN  { (k :> v) @@ d : v \in vs, d \in Dicts(keys \ {k}, walker) }

\* d without the key k.
Without(d, k) == [x \in (DOMAIN d) \ {k} |-> d[x]]

\* The calls of the catalogue run: every class, with all its kwargs or with
\* one of them left out.
Calls ==
    UNION { { [kind |-> kind, filename |-> f, kwargs |-> d] :
                f \in Filenames,
                d \in Dicts(Expects(kind), FALSE)
                      \cup { Without(e, k) : e \in Dicts(Expects(kind), FALSE),
                                             k \in Expects(kind) } } :
            kind \in Kinds }

\* The calls the walker makes: every class with all its kwargs.
WalkerCalls ==
    UNION { { [kind |-> kind, filename |-> f, kwargs |-> d] :
                f \in Filenames, d \in Dicts(Expects(kind), TRUE) } :
            kind \in Kinds }

NoCall == [kind |-> "none", filename |-> <<>>, kwargs |-> <<>>]

NoResult == [exc |-> "pending"]

\* The most recent two operations, after op has run.
Logged(ops, op) ==
    IF Len(ops) < 2 THEN Append(ops, op) ELSE <<ops[2], op>>

LastOp(ops) == IF ops = <<>> THEN "init" ELSE ops[Len(ops)]

----------------------------------------------------------------------------
(* A validation run: the walker raises errors, the reporter prints them *)

Init ==
    /\ errors = <<>>
    /\ raised = <<>>
    /\ out = <<>>
    /\ lastOps = <<>>
    /\ args = NoCall
    /\ result = NoResult
    /\ pc = "run"

\* errorstore.add_error(Kind(filename, **kwargs)); an exception of the
\* constructor propagates to the caller before add_error is reached.
raise_diagnostic ==
    /\ pc = "run"
    /\ Len(errors) < MaxErrors
    /\ \E call \in WalkerCalls :
         LET r == Construct(call.kind, call.filename, call.kwargs)
         IN  /\ errors' = IF r.exc = "none"
                          THEN add_error(errors, r.error)
                          ELSE errors
             /\ raised' = Append(raised, call)
    /\ lastOps' = Logged(lastOps, "raise")
    /\ UNCHANGED <<out, args, result, pc>>

\* report_errors popping each error off the store as it prints it.
report_errors_Popping ==
    /\ pc = "run"
    /\ out' = Lines(errors)
    /\ errors' = <<>>
    /\ lastOps' = Logged(lastOps, "report")
    /\ UNCHANGED <<raised, args, result, pc>>

\* report_errors reversing the store in place (errorstore.errors.reverse())
\* to print the newest error first.
report_errors_Reversing ==
    /\ pc = "run"
    /\ errors' = [i \in 1..Len(errors) |-> errors[Len(errors) + 1 - i]]
    /\ out' = Lines(errors')
    /\ lastOps' = Logged(lastOps, "report")
    /\ UNCHANGED <<raised, args, result, pc>>

\* report_errors(errorstore)
report_errors ==
    /\ pc = "run"
    /\ out' = Lines(errors)
    /\ lastOps' = Logged(lastOps, "report")
    /\ UNCHANGED <<errors, raised, args, result, pc>>

Next == raise_diagnostic \/ report_errors

Spec == Init /\ [][Next]_vars

----------------------------------------------------------------------------
(* A catalogue run: one constructor call on drawn arguments *)

InitCatalog ==
    /\ errors = <<>>
    /\ raised = <<>>
    /\ out = <<>>
    /\ lastOps = <<>>
    /\ args \in Calls
    /\ result = NoResult
    /\ pc = "call"

construct ==
    /\ pc = "call"
    /\ result' = Construct(args.kind, args.filename, args.kwargs)
    /\ pc' = "done"
    /\ UNCHANGED <<errors, raised, out, lastOps, args>>

NextCatalog == construct

SpecCatalog == InitCatalog /\ [][NextCatalog]_vars

----------------------------------------------------------------------------
(* Properties of the report and of the store, checked under Spec *)

\* The step just taken was a report_errors call.
Reported == LastOp(lastOps') = "report"

NoErrorsLine == <<"N","o"," ","e","r","r","o","r","s"," ","f","o","u","n","d","!">> (* "No errors found!" *)

\* The line the report format prescribes for one stored error.
FormatLine(e) ==
    (IF e.kind \in {"CourseXMLName", "EmptyTag", "PossiblePointer",
                    "NonFlatURLName", "NonFlatFilename"}
     THEN <<"W","A","R","N","I","N","G">> (* "WARNING" *) ELSE <<"E","R","R","O","R">> (* "ERROR" *))
    \o <<" ","(">> \o e.filename \o <<")",":"," ">> (* "): " *) \o e.description
    \o <<" ","(">> \o KindName(e.kind) \o <<")">>

\* C1: a report on a store of N >= 1 errors prints exactly N lines, the
\* i-th line being "{severity} ({filename}): {description} ({kind_name})" of
\* the i-th error in insertion order; nothing is reordered, dropped, merged
\* or added, and the no-errors line is not printed.
C1_ReportPrintsEveryErrorInOrder ==
    [][(Reported /\ Len(errors) >= 1) =>
          /\ Len(out') = Len(errors)
          /\ \A i \in 1..Len(errors) :
                /\ out'[i] = FormatLine(errors[i])
                /\ out'[i] # NoErrorsLine]_vars

C1_Witness ==
    /\ LastOp(lastOps) = "report"
    /\ Len(errors) = 2
    /\ errors[1] = errors[2]
    /\ Len(out) = 2
    /\ out[1] = out[2]
    /\ out[1] = <<"E","R","R","O","R"," ","(","c","o","u","r","s","e",".","x","m","l",")",":"," ","T","h","e"," ","f","i","l","e"," ","'","c","o","u","r","s","e",".","x","m","l","'"," ","d","o","e","s"," ","n","o","t"," ","e","x","i","s","t","."," ","(","C","o","u","r","s","e","X","M","L","D","o","e","s","N","o","t","E","x","i","s","t",")">> (* "ERROR (course.xml): The file 'course.xml' does not exist. (CourseXMLDoesNotExist)" *)

\* C2: a report on an empty store prints exactly one line, the fixed
\* no-errors message, and nothing else.
C2_EmptyStoreReport ==
    [][(Reported /\ errors = <<>>) => out' = <<NoErrorsLine>>]_vars

C2_Witness ==
    /\ LastOp(lastOps) = "report"
    /\ errors = <<>>
    /\ out = <<NoErrorsLine>>

\* C3: the store is exactly the sequence of the raised errors in raise
\* order: every raise appends one error at the end, earlier entries stay as
\* they are, and no raise is suppressed because an equal error is already
\* stored or because of its severity.
C3_StoreIsRaiseOrder ==
    /\ Len(errors) = Len(raised)
    /\ \A i \in 1..Len(raised) :
          /\ errors[i].kind = raised[i].kind
          /\ errors[i].filename = raised[i].filename
          /\ errors[i] =
               Construct(raised[i].kind, raised[i].filename,
                         raised[i].kwargs).error

C3_Witness ==
    /\ Len(raised) = 2
    /\ raised[1] = raised[2]
    /\ raised[1].kind = "EmptyTag"
    /\ Len(errors) = 2
    /\ errors[1] = errors[2]

\* C4: two report calls in a row, with no raise in between, print the same
\* lines in the same order.
C4_ReportTwiceSameOutput ==
    [][(LastOp(lastOps) = "report" /\ Reported) => out' = out]_vars

C4_Witness ==
    /\ lastOps = <<"report", "report">>
    /\ Len(errors) = 2
    /\ Len(out) = 2

\* C5: report leaves the store as it found it: same length, same order,
\* same kind, severity, filename and description of every error.
C5_ReportLeavesStore ==
    [][Reported =>
          /\ Len(errors') = Len(errors)
          /\ \A i \in 1..Len(errors) :
                /\ errors'[i].kind = errors[i].kind
                /\ level(errors'[i]) = level(errors[i])
                /\ errors'[i].filename = errors[i].filename
                /\ errors'[i].description = errors[i].description]_vars

C5_Witness ==
    /\ LastOp(lastOps) = "report"
    /\ Len(errors) = 2
    /\ errors[1] # errors[2]
    /\ Len(out) = 2

\* C10: every stored error has the fixed severity of its kind whatever its
\* fields are: ERROR for CourseXMLDoesNotExist, InvalidXML, InvalidHTML,
\* TagMismatch, ExtraURLName, InvalidPointer, FileDoesNotExist, SelfPointer,
\* UnexpectedTag and UnexpectedContent, WARNING for CourseXMLName, EmptyTag,
\* PossiblePointer, NonFlatURLName and NonFlatFilename; and no later raise
\* or report changes it.
C10_SeverityFixedByKind ==
    /\ [](\A i \in 1..Len(errors) :
            /\ errors[i].kind \in
                 {"CourseXMLDoesNotExist", "InvalidXML", "InvalidHTML",
                  "TagMismatch", "ExtraURLName", "InvalidPointer",
                  "FileDoesNotExist", "SelfPointer", "UnexpectedTag",
                  "UnexpectedContent"}
               => level(errors[i]) = <<"E","R","R","O","R">> (* "ERROR" *)
            /\ errors[i].kind \in
                 {"CourseXMLName", "EmptyTag", "PossiblePointer",
                  "NonFlatURLName", "NonFlatFilename"}
               => level(errors[i]) = <<"W","A","R","N","I","N","G">> (* "WARNING" *)
            /\ level(errors[i]) \in { <<"E","R","R","O","R">> (* "ERROR" *), <<"W","A","R","N","I","N","G">> (* "WARNING" *) })
    /\ [][\A i \in 1..Len(errors) :
            /\ Len(errors') >= i
            /\ level(errors'[i]) = level(errors[i])]_vars

C10_Witness ==
    /\ Len(errors) = 2
    /\ errors[1].kind = "EmptyTag"
    /\ errors[2].kind = "EmptyTag"
    /\ errors[1].description # errors[2].description
    /\ level(errors[1]) = <<"W","A","R","N","I","N","G">> (* "WARNING" *)
    /\ level(errors[2]) = <<"W","A","R","N","I","N","G">> (* "WARNING" *)
    /\ LastOp(lastOps) = "report"

----------------------------------------------------------------------------
(* Properties of the catalogue, checked under SpecCatalog *)

\* sub occurs in s.
Contains(s, sub) ==
    \E i \in 0..(Len(s) - Len(sub)) : SubSeq(s, i + 1, i + Len(sub)) = sub

\* s ends with suffix.
EndsWith(s, suffix) ==
    /\ Len(suffix) <= Len(s)
    /\ SubSeq(s, Len(s) - Len(suffix) + 1, Len(s)) = suffix

\* The call has been made and produced an error object.
Constructed == pc = "done" /\ result.exc = "none"

\* C6: for EmptyTag, UnexpectedTag, UnexpectedContent and NonFlatFilename
\* the description uses the phrasing "with no url_name" exactly when the
\* url_name is empty or None; with a non-empty url_name the description
\* contains that url_name and does not contain "no url_name".
C6_NoUrlNamePhrasing ==
    (/\ Constructed
     /\ args.kind \in {"EmptyTag", "UnexpectedTag", "UnexpectedContent",
                       "NonFlatFilename"}) =>
        LET u == args.kwargs["url_name"]
            d == result.error.description
            falsy == u = None \/ Len(u) = 0
        IN  /\ falsy <=> Contains(d, <<"w","i","t","h"," ","n","o"," ","u","r","l","_","n","a","m","e">> (* "with no url_name" *))
            /\ ~falsy => /\ Contains(d, u)
                         /\ ~Contains(d, <<"n","o"," ","u","r","l","_","n","a","m","e">> (* "no url_name" *))

C6_Witness ==
    /\ Constructed
    /\ args.kind = "EmptyTag"
    /\ args.kwargs["url_name"] = <<>>
    /\ result.error.description =
         <<"A"," ","<","c","h","a","p","t","e","r",">"," ","t","a","g"," ","w","i","t","h"," ","n","o"," ","u","r","l","_","n","a","m","e"," ","i","s"," ","u","n","e","x","p","e","c","t","e","d","l","y"," ","e","m","p","t","y">> (* "A <chapter> tag with no url_name is unexpectedly empty" *)

\* C7: the UnexpectedContent description ends with "(" + P + "...)", where
\* P is the first 10 characters of the text with its leading and trailing
\* whitespace removed (all of it when it has fewer than 10); the "..." is
\* there also when nothing was cut off, and P never exceeds 10 characters.
C7_ExcerptOfTrimmedText ==
    (Constructed /\ args.kind = "UnexpectedContent") =>
        LET text == args.kwargs["text"]
            d == result.error.description
            n == Len(text)
        IN  \E i \in 0..n, j \in 0..n :
              /\ i + j <= n
              /\ \A k \in 1..i : text[k] \in Whitespace
              /\ \A k \in (n - j + 1)..n : text[k] \in Whitespace
              /\ LET T == SubSeq(text, i + 1, n - j)
                     P == IF Len(T) < 10 THEN T ELSE SubSeq(T, 1, 10)
                 IN  /\ T # <<>> => /\ T[1] \notin Whitespace
                                    /\ T[Len(T)] \notin Whitespace
                     /\ Len(P) <= 10
                     /\ EndsWith(d, <<"(">> \o P \o <<".",".",".",")">> (* "...)" *))

C7_Witness ==
    /\ Constructed
    /\ args.kind = "UnexpectedContent"
    /\ args.kwargs["text"] = <<"\n", "\t">> \o SampleText \o <<" ">>
    /\ EndsWith(result.error.description,
                <<" ","s","h","o","u","l","d"," ","n","o","t"," ","c","o","n","t","a","i","n"," ","a","n","y"," ","t","e","x","t"," ","(","T","h","i","s"," ","i","s"," ","a"," ",".",".",".",")">> (* " should not contain any text (This is a ...)" *))

\* Every documented kwarg is passed, each a str, url_name possibly None.
WellFormed(call) ==
    /\ Expects(call.kind) \subseteq DOMAIN call.kwargs
    /\ \A k \in DOMAIN call.kwargs : k # "url_name" => call.kwargs[k] # None

\* C8 as stated: for every well-formed field set, constructing an error of
\* any of the 15 kinds never raises and yields a non-empty description.
C8_AsStated ==
    (pc = "done" /\ WellFormed(args)) =>
        /\ result.exc = "none"
        /\ result.error.description # <<>>

\* C8 as amended: for every well-formed field set, constructing an error of
\* any of the 15 kinds never raises; the description is non-empty except for
\* InvalidXML and InvalidHTML, whose description is the error text itself
\* and is empty exactly when that text is empty.
C8_NeverRaises ==
    (pc = "done" /\ WellFormed(args)) =>
        /\ result.exc = "none"
        /\ args.kind \in {"InvalidXML", "InvalidHTML"} =>
             result.error.description = args.kwargs["error"]
        /\ result.error.description = <<>> <=>
             (/\ args.kind \in {"InvalidXML", "InvalidHTML"}
              /\ args.kwargs["error"] = <<>>)

C8_Witness ==
    /\ pc = "done"
    /\ WellFormed(args)
    /\ args.kind = "InvalidXML"
    /\ args.kwargs["error"] = <<>>
    /\ result.exc = "none"
    /\ result.error.description = <<>>

\* C9: constructing an error of a kind without one of the kwargs the kind
\* requires fails with a construction error (KeyError) and yields no error
\* object.
C9_MissingFieldFails ==
    (pc = "done" /\ Expects(args.kind) \ DOMAIN args.kwargs # {}) =>
        /\ result.exc = "KeyError"
        /\ "error" \notin DOMAIN result

C9_Witness ==
    /\ pc = "done"
    /\ args.kind = "FileDoesNotExist"
    /\ DOMAIN args.kwargs = {"tag", "url_name"}
    /\ result.exc = "KeyError"

====
